---- MODULE Spec2Model ----
(***************************************************************************)
(* A model of scripts/generate_font.py: the command line entry point and   *)
(* generate_font, the pipeline that turns a character -> image mapping and *)
(* an optional adjustments file into a font file.                          *)
(*                                                                         *)
(* Numbers read from the adjustments file (letterSpacing, baselineOffset,  *)
(* kerning weights, per-character x and y) are rationals n/Den, held as    *)
(* the integer n; with Den a power of two every such value is an exact     *)
(* double and the arithmetic below is that of the Python floats.           *)
(* charWidth is a whole percentage.                                        *)
(* Vertical translations are never passed through int() by the code and    *)
(* are kept as numerators over Den; widths, side bearings and kerning      *)
(* values are passed through int() and are whole design units.             *)
(*                                                                         *)
(* The font library is a black box.  Its calls are modelled by what the    *)
(* script relies on: createChar adds a glyph slot, clear drops the         *)
(* outline, importOutlines raises for a file that is absent or unreadable, *)
(* transform translates the outline, addPosSub stores a pair adjustment,   *)
(* generate either raises or writes a file of some size.                   *)
(* clear leaves the advance width alone, and the calls of the kerning      *)
(* block (addLookup, addLookupSubtable, addPosSub) do not raise.            *)
(***************************************************************************)
EXTENDS Integers, Sequences, FiniteSets, TLC

VARIABLES
    argv,              \* sys.argv, script name first (sys.argv[k] is argv[k+1])
    charmap_json,      \* what is on disk at charmap_file
    adjustments_json,  \* what is on disk at adjustments_file
    files,             \* output directory: path -> size in bytes
    pc,                \* position of the run
    char_data,         \* generate_font: the loaded mapping list
    adjustments,       \* generate_font: the loaded adjustments dict
    font,              \* generate_font: code point -> glyph
    font_info,         \* generate_font: ascent, descent, lookups of the font
    i,                 \* index of the loop the run is in
    generated,         \* paths written by font.generate in this run
    warned,            \* the "unusually small" warning was printed
    result,            \* what generate_font returned
    exit_code          \* exit status of the process (NotExited while running)

vars == <<argv, charmap_json, adjustments_json, files, pc, char_data,
          adjustments, font, font_info, i, generated, warned, result,
          exit_code>>

----------------------------------------------------------------------------
(* Bounds of the model *)

MaxEntries == 2
MaxPairs == 2
Den == 8

(* Constants of the program *)

default_width == 512
letter_spacing_factor == 20
baseline_offset_factor == 40
kerning_factor == 20
position_factor == 40
font_ascent == 800
font_descent == 200
SpaceCode == 32
SmallFileSize == 1000

----------------------------------------------------------------------------
(* Helpers *)

EmptyDict == [k \in {} |-> 0]

\* dict.get(key, default)
Get(d, k, default) == IF k \in DOMAIN d THEN d[k] ELSE default

\* d[k] = v on a dict
Put(d, k, v) == [x \in (DOMAIN d) \cup {k} |-> IF x = k THEN v ELSE d[x]]

\* int(n/d) for d > 0: Python's int() truncates toward zero
Trunc(n, d) == IF n >= 0 THEN n \div d ELSE -((-n) \div d)

\* a // b for b > 0: Python's floor division
FloorDiv(a, b) == a \div b

\* ord(char) for the characters of the model's alphabet
Ord(c) == CASE c = "A" -> 65
            [] c = "V" -> 86
            [] c = " " -> 32

----------------------------------------------------------------------------
(* The image files the mapping entries can name.  os.path.exists and the   *)
(* library's reader decide what happens to each; neither changes during a  *)
(* run.                                                                    *)

ImagePaths == {"missing.png", "a.png", "b.png", "bad.png"}
ExistingImages == {"a.png", "b.png", "bad.png"}
ReadableImages == {"a.png", "b.png"}
NoImage == "none"

\* os.path.exists(char_path)
PathExists(path) == path \in ExistingImages

\* glyph.importOutlines(char_path) raises (absent or unreadable file)
ImportRaises(path) == path \notin ReadableImages

----------------------------------------------------------------------------
(* generate_font: the adjustment values, lines 48-59 and 86-88 *)

letter_spacing == Get(adjustments, "letterSpacing", 0)
baseline_offset == Get(adjustments, "baselineOffset", 0)
\* charWidth in percent; the code's char_width_scaling is charWidth / 100.0
charWidth == Get(adjustments, "charWidth", 100)
kerning_pairs == Get(adjustments, "kerningPairs", <<>>)
char_positions == Get(adjustments, "charPositions", EmptyDict)

\* int(default_width * char_width_scaling)
adjusted_width == Trunc(default_width * charWidth, 100)

\* int(letter_spacing * letter_spacing_factor)
spacing_adjustment == Trunc(letter_spacing * letter_spacing_factor, Den)

\* font.ascent / font.descent after the global baseline adjustment
FontInfo ==
    LET global_baseline == baseline_offset * baseline_offset_factor
    IN  [ascent  |-> IF baseline_offset # 0 /\ global_baseline > 0
                     THEN font_ascent + Trunc(global_baseline, Den)
                     ELSE font_ascent,
         descent |-> IF baseline_offset # 0 /\ ~(global_baseline > 0)
                     THEN font_descent + Trunc(-global_baseline, Den)
                     ELSE font_descent,
         lookups |-> {}]

----------------------------------------------------------------------------
(* Glyphs.  width: advance width; image: the file the outline was imported *)
(* from (NoImage: empty outline); dy: vertical translation of the outline, *)
(* numerator over Den; dx: shift of the left side bearing; hscale:         *)
(* horizontal scaling of the outline in percent; kern: right character ->  *)
(* pair adjustment.                                                        *)

NewGlyph(info) ==
    [width |-> info.ascent + info.descent, image |-> NoImage, dy |-> 0,
     dx |-> 0, hscale |-> 100, kern |-> EmptyDict]

\* font.createChar(unicode_value): the glyph of the slot, created if absent
CreateChar(f, info, u) == IF u \in DOMAIN f THEN f ELSE Put(f, u, NewGlyph(info))

\* glyph.clear(): the outline goes, the glyph stays
ClearGlyph(g) == [g EXCEPT !.image = NoImage, !.dy = 0, !.dx = 0, !.hscale = 100]

\* glyph.transform([1, 0, 0, 1, 0, t])
TranslateY(g, t) == [g EXCEPT !.dy = @ + t]

----------------------------------------------------------------------------
(* generate_font, first pass (lines 108-123), one mapping entry *)

FirstPassStep(f, info, entry) ==
    IF ~PathExists(entry.path)
    THEN f
    ELSE LET u == Ord(entry.char)
             created == CreateChar(f, info, u)
         IN  [created EXCEPT ![u].width = adjusted_width]

\* variant: the first loop stays on an entry whose image is missing
SkipMissing_Retry(k, n) == k

\* variant: the first loop stops at an entry whose image is missing (break)
SkipMissing_Break(k, n) == n + 1

\* the index the first loop goes to after an entry whose image is missing
\* (continue, line 117)
SkipMissing(k, n) == k + 1

FirstPassNext(k, data) ==
    IF ~PathExists(data[k].path) THEN SkipMissing(k, Len(data)) ELSE k + 1

----------------------------------------------------------------------------
(* generate_font, second pass (lines 125-216), one mapping entry *)

\* `if char_position:` - an entry that is present and not an empty dict
HasPosition(char) ==
    char \in DOMAIN char_positions /\ DOMAIN char_positions[char] # {}

\* variant: the global baseline shift is applied to positioned glyphs too
PositionedGlyph_WithBaseline(g, pos) ==
    LET based == TranslateY(g, baseline_offset * baseline_offset_factor)
        moved == IF "y" \in DOMAIN pos
                 THEN TranslateY(based, pos["y"] * position_factor)
                 ELSE based
    IN  IF "x" \in DOMAIN pos
        THEN [moved EXCEPT !.dx = @ + Trunc(pos["x"] * 4, 10 * Den),
                           !.width = adjusted_width + spacing_adjustment]
        ELSE moved

\* lines 154-185: the character has its own position
PositionedGlyph(g, pos) ==
    LET moved == IF "y" \in DOMAIN pos
                 THEN TranslateY(g, pos["y"] * position_factor)
                 ELSE g
    IN  IF "x" \in DOMAIN pos
        THEN [moved EXCEPT !.dx = @ + Trunc(pos["x"] * 4, 10 * Den),
                           !.width = adjusted_width + spacing_adjustment]
        ELSE moved

\* lines 186-196: no position of its own
GloballyAdjustedGlyph(g) ==
    LET moved == IF baseline_offset # 0
                 THEN TranslateY(g, baseline_offset * baseline_offset_factor)
                 ELSE g
    IN  [moved EXCEPT !.width = adjusted_width + spacing_adjustment]

\* lines 198-212: scale the outline about its centre
ScaledGlyph(g) == IF charWidth # 100 THEN [g EXCEPT !.hscale = charWidth] ELSE g

\* the try block, lines 138-216
ProcessGlyph(g, char, path) ==
    LET cleared == ClearGlyph(g)
    IN  IF ImportRaises(path)
        THEN cleared
        ELSE LET imported == [cleared EXCEPT !.image = path]
                 adjusted == IF HasPosition(char)
                             THEN PositionedGlyph(imported, char_positions[char])
                             ELSE GloballyAdjustedGlyph(imported)
             IN  ScaledGlyph(adjusted)

SecondPassStep(f, entry) ==
    LET u == Ord(entry.char)
    IN  IF u \notin DOMAIN f
        THEN f
        ELSE [f EXCEPT ![u] = ProcessGlyph(f[u], entry.char, entry.path)]

----------------------------------------------------------------------------
(* generate_font, kerning (lines 218-248).  kerning_pairs is the dict in   *)
(* its iteration order: a sequence of <<key, value>>, the key a sequence   *)
(* of characters.                                                          *)

\* variant: the sign of the factor is lost
KerningValue_Unsigned(value) == Trunc(value * kerning_factor, Den)

\* int(value * -kerning_factor)
KerningValue(value) == Trunc(value * (-kerning_factor), Den)

\* `left_unicode in font and right_unicode in font`
BothInFont(f, key) == Ord(key[1]) \in DOMAIN f /\ Ord(key[2]) \in DOMAIN f

\* font[left_unicode].addPosSub("kern-1", right_char, kerning_value, ...)
AddPosSub(f, left, right, value) == [f EXCEPT ![Ord(left)].kern = Put(@, right, value)]

\* one iteration of the loop over kerning_pairs.items()
KerningStep(f, pair) ==
    LET key == pair[1]
        value == pair[2]
    IN  IF Len(key) = 2 /\ BothInFont(f, key)
        THEN AddPosSub(f, key[1], key[2], KerningValue(value))
        ELSE f

\* variant: the letter spacing is added to the default space glyph
AddDefaultGlyphs_WithSpacing(f, info) ==
    IF SpaceCode \notin DOMAIN f
    THEN Put(f, SpaceCode,
             [NewGlyph(info) EXCEPT
                 !.width = FloorDiv(adjusted_width, 2) + spacing_adjustment])
    ELSE f

\* lines 250-254: the default space glyph
AddDefaultGlyphs(f, info) ==
    IF SpaceCode \notin DOMAIN f
    THEN Put(f, SpaceCode,
             [NewGlyph(info) EXCEPT !.width = FloorDiv(adjusted_width, 2)])
    ELSE f

----------------------------------------------------------------------------
(* The command line (lines 307-320) and serialization (lines 271-305) *)

SupportedFormats == {"ttf", "otf", "woff", "woff2"}

charmap_file == argv[2]
output_file == argv[3]
\* sys.argv[4] if len(sys.argv) > 4 else "ttf"
format == IF Len(argv) > 4 THEN argv[5] ELSE "ttf"
\* sys.argv[5] if len(sys.argv) > 5 else None
HasAdjustmentsFile == Len(argv) > 5

output_path == output_file \o "." \o format

\* the path font.generate is called with (lines 277-287)
GeneratePath ==
    IF format \in SupportedFormats THEN output_path ELSE output_file \o ".ttf"

\* variant: the existence of the output file is not checked
VerifyResult_Unchecked(fs, path) == path

\* lines 291-299, 305: what generate_font returns once font.generate returned
VerifyResult(fs, path) == IF path \in DOMAIN fs THEN path ELSE "False"

\* line 295: the size check that only warns
SmallFile(fs, path) == path \in DOMAIN fs /\ fs[path] < SmallFileSize

\* truthiness of generate_font's return value
Truthy(res) == res \notin {"False", ""}

\* variant: the test of the result is inverted
ExitCode_Inverted(res) == IF Truthy(res) THEN 1 ELSE 0

\* lines 318-320
ExitCode(res) == IF ~Truthy(res) THEN 1 ELSE 0

----------------------------------------------------------------------------
(* The inputs of a run *)

Chars == {"A", "V", " "}
MappingEntries == [char : Chars, path : ImagePaths]
MappingLists == UNION {[1..n -> MappingEntries] : n \in 0..MaxEntries}

Entry(c, p) == [char |-> c, path |-> p]

\* short lists used where the adjustments vary
FewLists ==
    {<<Entry("A", "a.png"), Entry("V", "b.png")>>,
     <<Entry("A", "a.png"), Entry(" ", "a.png")>>,
     <<Entry("A", "bad.png"), Entry("V", "a.png")>>,
     <<Entry("A", "a.png"), Entry("A", "b.png")>>,
     <<Entry("V", "missing.png"), Entry("A", "b.png")>>}

\* a file on disk: absent, not JSON, or JSON holding data
FileMissing == [status |-> "missing", data |-> <<>>]
FileInvalid == [status |-> "invalid", data |-> <<>>]
FileWith(d) == [status |-> "ok", data |-> d]

AllFormats == SupportedFormats \cup {"svg"}

ArgvOf(n, fmt) ==
    SubSeq(<<"generate_font.py", "charmap.json", "out", "My Font", fmt, "adj.json">>, 1, n)

\* numeric values of the adjustments, as numerators over Den
LetterSpacings == {0, Den, 3}
BaselineOffsets == {0, Den, -Den}
CharWidths == {100, 50, 33}
Weights == {Den, 1, -3}

KerningKeys == {<<"A", "V">>, <<"V", "A">>, <<"A", " ">>, <<"A">>, <<"A", "V", "A">>}
KerningItems == KerningKeys \X Weights
\* dicts: no key twice
KerningDicts ==
    UNION {{k \in [1..n -> KerningItems] :
               \A a, b \in 1..n : a # b => k[a][1] # k[b][1]} : n \in 0..MaxPairs}

\* a charPositions entry: a dict with any of the keys x and y
PositionDicts ==
    {EmptyDict, [x |-> 5 * Den], [y |-> Den], [y |-> 0], [x |-> 5 * Den, y |-> -Den]}
CharPositionDicts ==
    {EmptyDict} \cup {("A" :> p) : p \in PositionDicts}
    \cup {("A" :> p) @@ ("V" :> [y |-> Den]) : p \in PositionDicts}

PresetAdjustments ==
    [letterSpacing |-> Den, baselineOffset |-> Den, charWidth |-> 50,
     kerningPairs |-> << <<<<"A", "V">>, Den>>, <<<<"V", " ">>, 1>> >>,
     charPositions |-> ("V" :> [y |-> Den])]

NoFiles == EmptyDict
StaleFiles == {NoFiles, ("out.svg" :> 4096), ("out.ttf" :> 4096)}

\* sizes font.generate can leave the file with
FileSizes == {0, 500, 4096}

Input(a, c, j, s) == [argv |-> a, charmap |-> c, adjustments |-> j, stale |-> s]

\* the command line and the output directory vary
CommandLineInputs ==
    {Input(ArgvOf(n, fmt), c, j, s) :
        n \in 3..6, fmt \in AllFormats,
        c \in {FileMissing, FileInvalid, FileWith(<<>>),
               FileWith(<<Entry("A", "a.png")>>),
               FileWith(<<Entry("A", "missing.png")>>)},
        j \in {FileMissing, FileInvalid, FileWith(EmptyDict)},
        s \in StaleFiles}

\* the mapping list varies
MappingInputs ==
    {Input(ArgvOf(6, fmt), FileWith(m), j, NoFiles) :
        fmt \in {"ttf", "svg"}, m \in MappingLists,
        j \in {FileMissing, FileWith(PresetAdjustments)}}

\* the kerning pairs vary
KerningInputs ==
    {Input(ArgvOf(6, "otf"), FileWith(m), FileWith([kerningPairs |-> k]), NoFiles) :
        m \in FewLists, k \in KerningDicts}

\* the metrics and the per-character positions vary
PositionInputs ==
    {Input(ArgvOf(6, "woff"), FileWith(m),
           FileWith([letterSpacing |-> ls, baselineOffset |-> b,
                     charWidth |-> w, charPositions |-> p]), NoFiles) :
        m \in FewLists, ls \in LetterSpacings, b \in BaselineOffsets,
        w \in CharWidths, p \in CharPositionDicts}

Inputs == CommandLineInputs \cup MappingInputs \cup KerningInputs \cup PositionInputs

----------------------------------------------------------------------------
(* The state machine *)

Init ==
    \E in \in Inputs :
        /\ argv = in.argv
        /\ charmap_json = in.charmap
        /\ adjustments_json = in.adjustments
        /\ files = in.stale
        /\ pc = "Start"
        /\ char_data = <<>>
        /\ adjustments = EmptyDict
        /\ font = EmptyDict
        /\ font_info = [ascent |-> font_ascent, descent |-> font_descent, lookups |-> {}]
        /\ i = 1
        /\ generated = {}
        /\ warned = FALSE
        /\ result = ""
        /\ exit_code = -1

\* __main__, lines 307-318: the usage check
Main ==
    /\ pc = "Start"
    /\ IF Len(argv) < 4
       THEN /\ exit_code' = 1
            /\ pc' = "Failure"
       ELSE /\ pc' = "LoadMappings"
            /\ UNCHANGED exit_code
    /\ UNCHANGED <<argv, charmap_json, adjustments_json, files, char_data,
                   adjustments, font, font_info, i, generated, warned, result>>

\* lines 32-36: open and json.load are not guarded; an exception leaves
\* generate_font and ends the process
LoadMappings ==
    /\ pc = "LoadMappings"
    /\ IF charmap_json.status = "ok"
       THEN /\ char_data' = charmap_json.data
            /\ pc' = "LoadAdjustments"
            /\ UNCHANGED <<result, exit_code>>
       ELSE /\ result' = "raised"
            /\ exit_code' = 1
            /\ pc' = "Failure"
            /\ UNCHANGED char_data
    /\ UNCHANGED <<argv, charmap_json, adjustments_json, files, adjustments,
                   font, font_info, i, generated, warned>>

\* lines 38-106: the adjustments, then the empty font and its metrics
LoadAdjustments ==
    /\ pc = "LoadAdjustments"
    /\ IF HasAdjustmentsFile /\ adjustments_json.status # "missing"
       THEN IF adjustments_json.status = "ok"
            THEN /\ adjustments' = adjustments_json.data
                 /\ font_info' = FontInfo'
                 /\ pc' = "CreateGlyphs"
                 /\ UNCHANGED <<result, exit_code>>
            ELSE /\ result' = "raised"
                 /\ exit_code' = 1
                 /\ pc' = "Failure"
                 /\ UNCHANGED <<adjustments, font_info>>
       ELSE /\ adjustments' = EmptyDict
            /\ font_info' = FontInfo'
            /\ pc' = "CreateGlyphs"
            /\ UNCHANGED <<result, exit_code>>
    /\ i' = 1
    /\ UNCHANGED <<argv, charmap_json, adjustments_json, files, char_data,
                   font, generated, warned>>

\* lines 109-123: one iteration of the first loop
CreateGlyph ==
    /\ pc = "CreateGlyphs"
    /\ i <= Len(char_data)
    /\ font' = FirstPassStep(font, font_info, char_data[i])
    /\ i' = FirstPassNext(i, char_data)
    /\ UNCHANGED <<argv, charmap_json, adjustments_json, files, pc, char_data,
                   adjustments, font_info, generated, warned, result, exit_code>>

CreateGlyphsDone ==
    /\ pc = "CreateGlyphs"
    /\ i > Len(char_data)
    /\ pc' = "ApplyAdjustments"
    /\ i' = 1
    /\ UNCHANGED <<argv, charmap_json, adjustments_json, files, char_data,
                   adjustments, font, font_info, generated, warned, result,
                   exit_code>>

\* lines 126-216: one iteration of the second loop
ApplyAdjustment ==
    /\ pc = "ApplyAdjustments"
    /\ i <= Len(char_data)
    /\ font' = SecondPassStep(font, char_data[i])
    /\ i' = i + 1
    /\ UNCHANGED <<argv, charmap_json, adjustments_json, files, pc, char_data,
                   adjustments, font_info, generated, warned, result, exit_code>>

ApplyAdjustmentsDone ==
    /\ pc = "ApplyAdjustments"
    /\ i > Len(char_data)
    /\ pc' = "ApplyKerning"
    /\ i' = 1
    /\ UNCHANGED <<argv, charmap_json, adjustments_json, files, char_data,
                   adjustments, font, font_info, generated, warned, result,
                   exit_code>>

\* lines 219-244: the lookup and one iteration of the loop over the pairs
ApplyKerningPair ==
    /\ pc = "ApplyKerning"
    /\ i <= Len(kerning_pairs)
    /\ font' = KerningStep(font, kerning_pairs[i])
    /\ font_info' = [font_info EXCEPT !.lookups = @ \cup {"kern"}]
    /\ i' = i + 1
    /\ UNCHANGED <<argv, charmap_json, adjustments_json, files, pc, char_data,
                   adjustments, generated, warned, result, exit_code>>

ApplyKerningDone ==
    /\ pc = "ApplyKerning"
    /\ i > Len(kerning_pairs)
    /\ pc' = "AddDefaultGlyphs"
    /\ i' = 1
    /\ UNCHANGED <<argv, charmap_json, adjustments_json, files, char_data,
                   adjustments, font, font_info, generated, warned, result,
                   exit_code>>

\* lines 250-254
AddSpace ==
    /\ pc = "AddDefaultGlyphs"
    /\ font' = AddDefaultGlyphs(font, font_info)
    /\ pc' = "Serialize"
    /\ UNCHANGED <<argv, charmap_json, adjustments_json, files, char_data,
                   adjustments, font_info, i, generated, warned, result,
                   exit_code>>

\* lines 275-289, 300-302: font.generate writes the file
Serialize ==
    /\ pc = "Serialize"
    /\ \E size \in FileSizes :
          /\ files' = Put(files, GeneratePath, size)
          /\ generated' = generated \cup {GeneratePath}
    /\ pc' = "Verify"
    /\ UNCHANGED <<argv, charmap_json, adjustments_json, char_data,
                   adjustments, font, font_info, i, warned, result, exit_code>>

\* lines 275-289, 300-302: font.generate raises
SerializeRaises ==
    /\ pc = "Serialize"
    /\ result' = "False"
    /\ pc' = "Returned"
    /\ UNCHANGED <<argv, charmap_json, adjustments_json, files, char_data,
                   adjustments, font, font_info, i, generated, warned,
                   exit_code>>

\* lines 291-299, 304-305
Verify ==
    /\ pc = "Verify"
    /\ result' = VerifyResult(files, output_path)
    /\ warned' = SmallFile(files, output_path)
    /\ pc' = "Returned"
    /\ UNCHANGED <<argv, charmap_json, adjustments_json, files, char_data,
                   adjustments, font, font_info, i, generated, exit_code>>

\* lines 318-320
Exit ==
    /\ pc = "Returned"
    /\ exit_code' = ExitCode(result)
    /\ pc' = IF exit_code' = 0 THEN "Success" ELSE "Failure"
    /\ UNCHANGED <<argv, charmap_json, adjustments_json, files, char_data,
                   adjustments, font, font_info, i, generated, warned, result>>

Next ==
    \/ Main
    \/ LoadMappings
    \/ LoadAdjustments
    \/ CreateGlyph
    \/ CreateGlyphsDone
    \/ ApplyAdjustment
    \/ ApplyAdjustmentsDone
    \/ ApplyKerningPair
    \/ ApplyKerningDone
    \/ AddSpace
    \/ Serialize
    \/ SerializeRaises
    \/ Verify
    \/ Exit

Spec == Init /\ [][Next]_vars

\* the run is a single sequential process: it always takes its next step
FairSpec == Spec /\ WF_vars(Next)

----------------------------------------------------------------------------
(* The loops of generate_font as folds, for statements that compare the    *)
(* font of a run with the font another mapping list would give             *)

RECURSIVE FirstPassFrom(_, _, _, _)
FirstPassFrom(f, info, data, k) ==
    IF k > Len(data)
    THEN f
    ELSE FirstPassFrom(FirstPassStep(f, info, data[k]), info, data,
                       FirstPassNext(k, data))

RECURSIVE SecondPassFrom(_, _, _)
SecondPassFrom(f, data, k) ==
    IF k > Len(data)
    THEN f
    ELSE SecondPassFrom(SecondPassStep(f, data[k]), data, k + 1)

RECURSIVE KerningFrom(_, _, _)
KerningFrom(f, pairs, k) ==
    IF k > Len(pairs)
    THEN f
    ELSE KerningFrom(KerningStep(f, pairs[k]), pairs, k + 1)

\* the font generate_font hands to font.generate for the mapping list data
BuildFont(data) ==
    AddDefaultGlyphs(
        KerningFrom(
            SecondPassFrom(FirstPassFrom(EmptyDict, font_info, data, 1), data, 1),
            kerning_pairs, 1),
        font_info)

----------------------------------------------------------------------------
(* Vocabulary of the properties *)

Range(s) == {s[k] : k \in DOMAIN s}

Terminal == pc \in {"Success", "Failure"}

\* generate_font has returned (it did not raise)
Returned == result \notin {"", "raised"}

\* both passes over the mapping list are complete
FontBuilt ==
    \/ pc \in {"ApplyKerning", "AddDefaultGlyphs", "Serialize", "Verify",
               "Returned", "Success"}
    \/ pc = "Failure" /\ Returned

\* font.generate returned without raising
Serialized == generated # {}

\* characters with at least one mapping entry whose image exists
MappedChars(data) == {e.char : e \in {d \in Range(data) : PathExists(d.path)}}

\* the glyph of character c was processed without an exception
Processed(c) == Ord(c) \in DOMAIN font /\ font[Ord(c)].image # NoImage

\* a kerning key that the loop applies
Applies(f, key) == Len(key) = 2 /\ Ord(key[1]) \in DOMAIN f /\ Ord(key[2]) \in DOMAIN f

\* the order of the phases
Rank(p) ==
    CASE p = "Start" -> 0
      [] p = "LoadMappings" -> 1
      [] p = "LoadAdjustments" -> 2
      [] p = "CreateGlyphs" -> 3
      [] p = "ApplyAdjustments" -> 4
      [] p = "ApplyKerning" -> 5
      [] p = "AddDefaultGlyphs" -> 6
      [] p = "Serialize" -> 7
      [] p = "Verify" -> 8
      [] p = "Returned" -> 9
      [] p \in {"Success", "Failure"} -> 10

----------------------------------------------------------------------------
(* Properties *)

\* C1: when the format tag is none of ttf, otf, woff, woff2 and font.generate
\* succeeds, the font is written to <output_file>.ttf and the run reports
\* success (a truthy result, no exit with 1).
C1_UnsupportedFormatFallsBack ==
    (Terminal /\ Returned /\ Serialized /\ format \notin SupportedFormats)
        => /\ (output_file \o ".ttf") \in generated
           /\ Truthy(result)
           /\ exit_code # 1

\* C2, first part: no mapping entry makes generate_font raise - a run that
\* ends by an exception ended while loading one of the two input files.
C2_NoAbort ==
    (pc = "Failure" /\ result = "raised")
        => (charmap_json.status # "ok" \/ adjustments_json.status = "invalid")

\* C2, second part: once both passes are over, every readable entry that is
\* the last entry of its character has its glyph imported, whatever the
\* other entries are.
C2_OthersProcessed ==
    FontBuilt =>
        \A k \in DOMAIN char_data :
            (/\ ~ImportRaises(char_data[k].path)
             /\ \A m \in DOMAIN char_data :
                    m > k => char_data[m].char # char_data[k].char)
                => /\ Ord(char_data[k].char) \in DOMAIN font
                   /\ font[Ord(char_data[k].char)].image = char_data[k].path

\* C2, third part: a mapping list with a bad entry and at least one valid
\* entry, and a successful font.generate: the run reports success and the
\* output file exists.
C2_SuccessWithValidEntry ==
    (/\ Terminal /\ Returned /\ Serialized
     /\ \E e \in Range(char_data) : ImportRaises(e.path)
     /\ \E e \in Range(char_data) : ~ImportRaises(e.path))
        => /\ Truthy(result)
           /\ exit_code = 0
           /\ output_path \in DOMAIN files

\* C2: an entry whose image is missing or whose processing raises never
\* aborts the run: the other entries are processed in both passes, the run
\* reaches serialization and, with a valid entry, reports success with an
\* output file.
C2_BadEntriesNeverAbort ==
    C2_NoAbort /\ C2_OthersProcessed /\ C2_SuccessWithValidEntry

\* the whole design units int() makes of the rational n/Den
IsTruncationOf(units, n) ==
    /\ n >= 0 => (units * Den <= n /\ n < (units + 1) * Den)
    /\ n < 0 => ((units - 1) * Den < n /\ n <= units * Den)

\* what the kerning step stored: the pairs <<left, right>> with an adjustment
StoredPairs ==
    {<<l, r>> \in Chars \X Chars :
        Ord(l) \in DOMAIN font /\ r \in DOMAIN font[Ord(l)].kern}

\* the keys of kerningPairs the step applies: two characters, both with glyphs
AppliedKeys == {p[1] : p \in {q \in Range(kerning_pairs) : Applies(font, q[1])}}

C4_WidthIsEffectivePlusSpacing ==
    FontBuilt =>
        \A c \in Chars :
            Processed(c) =>
                font[Ord(c)].width =
                    Trunc(512 * charWidth, 100) + Trunc(letter_spacing * 20, Den)

\* the vertical shift C5 states: y x 40 for a character with an entry in
\* charPositions (nothing when the entry has no y), baselineOffset x 40
\* for a character without one
StatedShift(c) ==
    IF c \in DOMAIN char_positions
    THEN IF "y" \in DOMAIN char_positions[c] THEN char_positions[c]["y"] * 40 ELSE 0
    ELSE baseline_offset * 40

\* the same with an empty entry counted as no entry
AmendedShift(c) ==
    IF c \in DOMAIN char_positions /\ char_positions[c] # EmptyDict
    THEN IF "y" \in DOMAIN char_positions[c] THEN char_positions[c]["y"] * 40 ELSE 0
    ELSE baseline_offset * 40

\* C5 as stated: the vertical translation of a processed glyph is y x 40 when
\* the character has an entry in charPositions and baselineOffset x 40 when
\* it has none, never both.
C5_ShiftByEntry ==
    FontBuilt => \A c \in Chars : Processed(c) => font[Ord(c)].dy = StatedShift(c)

\* C5 amended: y x 40 when the character has a non-empty entry in
\* charPositions, baselineOffset x 40 when it has no entry or an empty one,
\* never both.
C5_ShiftByNonEmptyEntry ==
    FontBuilt => \A c \in Chars : Processed(c) => font[Ord(c)].dy = AmendedShift(c)

\* one glyph shifted by its own y = 1 and not by the baseline offset, another
\* shifted by the baseline offset alone
C5_Witness ==
    /\ FontBuilt
    /\ baseline_offset # 0
    /\ \E c \in Chars :
          /\ Processed(c)
          /\ c \in DOMAIN char_positions
          /\ "y" \in DOMAIN char_positions[c]
          /\ char_positions[c]["y"] = Den
          /\ font[Ord(c)].dy = 40 * Den
    /\ \E c \in Chars :
          /\ Processed(c)
          /\ c \notin DOMAIN char_positions
          /\ font[Ord(c)].dy = baseline_offset * 40

\* C6 as stated: generate_font reports success only if the output file
\* exists and has non-trivial size; when font.generate raised, or the file
\* is absent, empty or trivially small, it returns False and the process
\* exits non-zero.
C6_SuccessOnlyIfNonTrivialFile ==
    (Terminal /\ Returned) =>
        /\ Truthy(result) =>
               (/\ Serialized
                /\ output_path \in DOMAIN files
                /\ files[output_path] >= SmallFileSize)
        /\ ~Truthy(result) => (result = "False" /\ exit_code # 0)

\* C6 amended: generate_font reports success only if font.generate did not
\* raise and a file exists at <output_file>.<format>, whatever its size (a
\* file under 1000 bytes, even an empty one, only draws a warning); when
\* font.generate raised or the file is absent it returns False and the
\* process exits non-zero.
C6_SuccessOnlyIfFileExists ==
    (Terminal /\ Returned) =>
        /\ Truthy(result) => (Serialized /\ output_path \in DOMAIN files)
        /\ ~Truthy(result) => (result = "False" /\ exit_code # 0)
        /\ warned <=> (/\ Truthy(result)
                       /\ output_path \in DOMAIN files
                       /\ files[output_path] < SmallFileSize)

\* success reported for an empty output file, with the warning
C6_Witness ==
    /\ pc = "Success"
    /\ result = output_path
    /\ output_path \in generated
    /\ files[output_path] = 0
    /\ warned

C8_PhaseOrder ==
    /\ [][\/ Rank(pc') > Rank(pc)
          \/ (pc' = pc /\ i' > i)]_vars
    /\ [][~Terminal]_vars
    /\ <>Terminal
    /\ [](charmap_json.status # "ok" =>
              /\ pc \in {"Start", "LoadMappings", "Failure"}
              /\ DOMAIN font = {}
              /\ generated = {})

\* a run that went through every phase, both loops and the kerning loop
C8_Witness ==
    /\ pc = "Success"
    /\ Len(char_data) >= 2
    /\ Len(kerning_pairs) >= 1
    /\ DOMAIN font # {}
    /\ generated # {}

\* a run whose mapping file could not be loaded
C8_AbortWitness ==
    /\ pc = "Failure"
    /\ Len(argv) >= 4
    /\ charmap_json.status = "invalid"
    /\ result = "raised"

\* every reordering of a mapping list
Reorderings(data) ==
    {[k \in 1..Len(data) |-> data[p[k]]] :
        p \in {q \in [1..Len(data) -> 1..Len(data)] :
                  \A a, b \in 1..Len(data) : a # b => q[a] # q[b]}}

\* the same glyph set and, per glyph, the same source image, advance width,
\* vertical shift and kerning adjustments
SameFont(f, g) ==
    /\ DOMAIN f = DOMAIN g
    /\ \A u \in DOMAIN f :
           /\ f[u].image = g[u].image
           /\ f[u].width = g[u].width
           /\ f[u].dy = g[u].dy
           /\ f[u].kern = g[u].kern

\* no character appears in two entries
DistinctChars(data) ==
    \A a, b \in DOMAIN data : a # b => data[a].char # data[b].char

\* C9 as stated: the font handed to serialization is the same for every
\* permutation of the mapping list, also when a character appears in more
\* than one entry.
C9_OrderIrrelevant ==
    pc = "Serialize" =>
        \A p \in Reorderings(char_data) : SameFont(font, BuildFont(p))

\* C9 amended: the font handed to serialization is the same for every
\* permutation of a mapping list in which no character appears in more than
\* one entry.
C9_OrderIrrelevantDistinct ==
    (pc = "Serialize" /\ DistinctChars(char_data)) =>
        \A p \in Reorderings(char_data) : SameFont(font, BuildFont(p))

\* two entries for different characters, one of them without its image, and
\* adjustments in force
C9_Witness ==
    /\ pc = "Serialize"
    /\ Len(char_data) = 2
    /\ DistinctChars(char_data)
    /\ ~PathExists(char_data[1].path)
    /\ ~ImportRaises(char_data[2].path)
    /\ Ord(char_data[2].char) \in DOMAIN font
    /\ adjustments # EmptyDict

\* C10: when font.generate is called the glyphs are those of the mapped
\* characters with an existing image, plus the space; a glyph whose import
\* raised is among them and takes kerning; a space that was not mapped is
\* absent until the kerning step is over and then has the width
\* floor(512 x charWidth/100 / 2), without the letter spacing.
C10_GlyphSet ==
    /\ pc = "Serialize" =>
           /\ DOMAIN font = {Ord(c) : c \in MappedChars(char_data) \cup {" "}}
           /\ \A p \in Range(kerning_pairs) :
                  (Len(p[1]) = 2 /\ {p[1][1], p[1][2]} \subseteq MappedChars(char_data))
                      => p[1][2] \in DOMAIN font[Ord(p[1][1])].kern
           /\ " " \notin MappedChars(char_data) =>
                  /\ font[32].width = (512 * charWidth) \div 200
                  /\ font[32].image = NoImage
                  /\ font[32].kern = EmptyDict
    /\ pc \in {"ApplyAdjustments", "ApplyKerning", "AddDefaultGlyphs"} =>
           DOMAIN font = {Ord(c) : c \in MappedChars(char_data)}

\* an unmapped space next to a glyph whose import raised, with letter spacing
\* and a width scaling that does not divide evenly
C10_Witness ==
    /\ pc = "Serialize"
    /\ " " \notin MappedChars(char_data)
    /\ 32 \in DOMAIN font
    /\ letter_spacing # 0
    /\ charWidth = 33
    /\ \E e \in Range(char_data) :
          /\ PathExists(e.path)
          /\ ImportRaises(e.path)
          /\ Ord(e.char) \in DOMAIN font
          /\ font[Ord(e.char)].image = NoImage

====
